---------------------------- MODULE Spec2Model ----------------------------
(***************************************************************************)
(* The certbot runner (src/certbot-runner/certbot_runner.py): one handler  *)
(* that fetches state.tar from object storage, extracts it into            *)
(* /tmp/config-dir behind a path check, runs the ACME renewal, archives    *)
(* the directory again, uploads it, packages the two certificate files     *)
(* into /tmp/certbundle.zip and uploads that.                              *)
(*                                                                         *)
(* A string of the program is a sequence of one-character strings, so that *)
(* os.path.join, os.path.abspath and os.path.commonprefix are computed     *)
(* character by character as the library computes them.                    *)
(*                                                                         *)
(* tarfile is modelled as it behaves without an extraction filter (the     *)
(* behaviour the path check of lines 16-32 was written for).  A symbolic   *)
(* link of certbot's live/ directory is represented by the content it      *)
(* resolves to.                                                            *)
(***************************************************************************)
EXTENDS Integers, Sequences, FiniteSets, TLC

VARIABLES
    storage,    \* object storage: bucket -> key -> object
    fs,         \* local file system of each execution environment: path -> node
    pc,         \* the statement each execution environment's handler is at
    steps,      \* the statements the current invocation has executed, with outcome
    renewed,    \* what the renewal call left in live/<domain>/ (current invocation)
    environ,    \* os.environ['SUBDOMAIN'] of each execution environment
    started,    \* number of invocations started so far
    issued,     \* number of certificates the certificate authority has issued
    putLog,     \* per bucket and key, the objects upload_file was called with, in order
    ledger,     \* per bucket: whether invocations overlapped, whether one failed, the latest
    xArchive,   \* extraction harness: the archive given to safe_extract
    xFs,        \* extraction harness: the file system extracted into
    xStatus,    \* extraction harness: outcome of safe_extract
    xPhase,     \* extraction harness: position
    xBefore,    \* extraction harness: the file system before safe_extract
    xTar2,      \* extraction harness: tar.add of the extracted directory
    xFs2        \* extraction harness: xTar2 extracted into an empty file system

vars == <<storage, fs, pc, steps, renewed, environ, started, issued, putLog, ledger,
          xArchive, xFs, xStatus, xPhase, xBefore, xTar2, xFs2>>

hvars == <<storage, fs, pc, steps, renewed, environ, started, issued, putLog, ledger>>
xvars == <<xArchive, xFs, xStatus, xPhase, xBefore, xTar2, xFs2>>

---------------------------------------------------------------------------
(* Bounds of the model. *)

MaxEntries == 2        \* members of an archive given to the extraction harness
MaxInvocations == 2    \* invocations started in one behaviour
MaxEnvs == 2           \* execution environments alive at the same time

---------------------------------------------------------------------------
(* String literals of the program. *)

StatePath == <<"/", "t", "m", "p", "/", "s", "t", "a", "t", "e", ".", "t", "a", "r">>
ConfigDir == <<"/", "t", "m", "p", "/", "c", "o", "n", "f", "i", "g", "-", "d", "i", "r">>
BundlePath == <<"/", "t", "m", "p", "/", "c", "e", "r", "t", "b", "u", "n", "d", "l", "e", ".", "z", "i", "p">>
LivePrefix == <<"/", "t", "m", "p", "/", "c", "o", "n", "f", "i", "g", "-", "d", "i", "r", "/", "l", "i", "v", "e", "/">>
DomainSuffix == <<".", "l", "i", "q", "u", "i", "d", "i", "t", "y", "a", "p", "p", ".", "c", "o", "m">>
PrivkeySuffix == <<"/", "p", "r", "i", "v", "k", "e", "y", ".", "p", "e", "m">>
FullchainSuffix == <<"/", "f", "u", "l", "l", "c", "h", "a", "i", "n", ".", "p", "e", "m">>
PrivkeyName == <<"p", "r", "i", "v", "k", "e", "y", ".", "p", "e", "m">>
FullchainName == <<"f", "u", "l", "l", "c", "h", "a", "i", "n", ".", "p", "e", "m">>
StateKey == "state.tar"
BundleKey == "certbundle.zip"
Keys == {StateKey, BundleKey}

\* os.environ['AWS_REGION'] and the literal part of the bucket name
Region == <<"u", "s", "-", "e", "a", "s", "t", "-", "1">>
BucketInfix == <<".", "l", "i", "q", "u", "i", "d", "i", "t", "y", "-", "c", "e", "r", "t", "b", "o", "t", "-", "r", "u", "n", "n", "e", "r", "-", "i", "n", "f", "r", "a", "s", "t", "r", "u", "c", "t", "u", "r", "e", "-">>

\* The working directory of the process; os.path.abspath joins it to a
\* relative path.  Every path the handler passes is absolute.
Cwd == <<"/", "v", "a", "r", "/", "t", "a", "s", "k">>

\* Code-point order of the characters that occur in the model's strings.
Alphabet == <<"-", ".", "/", "0", "1", "2", "3", "4", "5", "6", "7", "8", "9",
              "a", "b", "c", "d", "e", "f", "g", "h", "i", "j", "k", "l", "m",
              "n", "o", "p", "q", "r", "s", "t", "u", "v", "w", "x", "y", "z">>

CharCode(c) == CHOOSE i \in 1..Len(Alphabet) : Alphabet[i] = c

---------------------------------------------------------------------------
(* posixpath *)

StartsWith(s, p) == Len(p) <= Len(s) /\ SubSeq(s, 1, Len(p)) = p

IsAbs(p) == StartsWith(p, <<"/">>)

\* os.path.join(a, b)
Join(a, b) ==
    IF IsAbs(b) THEN b
    ELSE IF a = <<>> \/ a[Len(a)] = "/" THEN a \o b
    ELSE a \o <<"/">> \o b

\* s.split('/')
RECURSIVE SplitFrom(_, _, _)
SplitFrom(s, i, cur) ==
    IF i > Len(s) THEN <<cur>>
    ELSE IF s[i] = "/" THEN <<cur>> \o SplitFrom(s, i + 1, <<>>)
    ELSE SplitFrom(s, i + 1, Append(cur, s[i]))

Split(s) == SplitFrom(s, 1, <<>>)

\* '/'.join(comps)
RECURSIVE JoinComps(_)
JoinComps(comps) ==
    IF comps = <<>> THEN <<>>
    ELSE IF Len(comps) = 1 THEN comps[1]
    ELSE comps[1] \o <<"/">> \o JoinComps(Tail(comps))

DotDot == <<".", ".">>
Dot == <<".">>

\* the loop of posixpath.normpath over the components
RECURSIVE NormComps(_, _, _)
NormComps(comps, new, initial) ==
    IF comps = <<>> THEN new
    ELSE LET c == Head(comps) IN
         IF c = <<>> \/ c = Dot THEN NormComps(Tail(comps), new, initial)
         ELSE IF \/ c # DotDot
                 \/ (initial = 0 /\ new = <<>>)
                 \/ (new # <<>> /\ new[Len(new)] = DotDot)
              THEN NormComps(Tail(comps), Append(new, c), initial)
         ELSE IF new # <<>>
              THEN NormComps(Tail(comps), SubSeq(new, 1, Len(new) - 1), initial)
         ELSE NormComps(Tail(comps), new, initial)

InitialSlashes(p) ==
    IF ~IsAbs(p) THEN 0
    ELSE IF StartsWith(p, <<"/", "/">>) /\ ~StartsWith(p, <<"/", "/", "/">>) THEN 2
    ELSE 1

\* posixpath.normpath
NormPath(p) ==
    IF p = <<>> THEN Dot
    ELSE LET n == InitialSlashes(p)
             body == JoinComps(NormComps(Split(p), <<>>, n))
             out == [i \in 1..n |-> "/"] \o body
         IN IF out = <<>> THEN Dot ELSE out

\* os.path.abspath
AbsPath(p) == NormPath(IF IsAbs(p) THEN p ELSE Join(Cwd, p))

\* os.path.commonprefix([a, b]): the longest common leading run of characters
RECURSIVE CommonPrefix(_, _)
CommonPrefix(a, b) ==
    IF a = <<>> \/ b = <<>> \/ a[1] # b[1] THEN <<>>
    ELSE <<a[1]>> \o CommonPrefix(Tail(a), Tail(b))

\* is_within_directory (lines 16-23)
IsWithinDirectory(directory, target) ==
    LET abs_directory == AbsPath(directory)
        abs_target == AbsPath(target)
        prefix == CommonPrefix(abs_directory, abs_target)
    IN prefix = abs_directory

---------------------------------------------------------------------------
(* Files, archives and the local file system. *)

NoData == <<"none", 0>>

DirNode == [kind |-> "dir", data |-> NoData, members |-> <<>>]
FileNode(d) == [kind |-> "file", data |-> d, members |-> <<>>]
TarNode(ms) == [kind |-> "tar", data |-> NoData, members |-> ms]
ZipNode(ms) == [kind |-> "zip", data |-> NoData, members |-> ms]
NoObject == [kind |-> "absent", data |-> NoData, members |-> <<>>]

\* a member of an archive
Member(n, t, d) == [name |-> n, type |-> t, data |-> d]

Root == <<"/">>
TmpDir == <<"/", "t", "m", "p">>

\* the local storage of a fresh execution environment
EmptyFs == (Root :> DirNode) @@ (TmpDir :> DirNode)

Exists(f, p) == p \in DOMAIN f
IsDir(f, p) == Exists(f, p) /\ f[p].kind = "dir"

Put(f, p, node) == [q \in DOMAIN f \cup {p} |-> IF q = p THEN node ELSE f[q]]

\* the entry named c of directory d
Child(d, c) == IF d = Root THEN d \o c ELSE d \o <<"/">> \o c

\* the last component of a normalised absolute path
BaseName(p) == LET cs == Split(p) IN cs[Len(cs)]

\* the directory holding a normalised absolute path
Parent(p) ==
    LET cs == Split(p)
        up == JoinComps(SubSeq(cs, 1, Len(cs) - 1))
    IN IF up = <<>> THEN Root ELSE up

\* s.rstrip('/')
RECURSIVE RStripSlash(_)
RStripSlash(s) ==
    IF s # <<>> /\ s[Len(s)] = "/" THEN RStripSlash(SubSeq(s, 1, Len(s) - 1)) ELSE s

\* The kernel's walk along the directory part of a path, os.makedirs creating
\* what is missing.  w = [fs, cur, ok]: the file system, the directory reached,
\* and whether the walk succeeded so far.
RECURSIVE MakeDirs(_, _)
MakeDirs(w, comps) ==
    IF comps = <<>> \/ ~w.ok THEN w
    ELSE LET c == Head(comps) IN
         IF c = <<>> \/ c = Dot THEN MakeDirs(w, Tail(comps))
         ELSE IF c = DotDot
              THEN MakeDirs([w EXCEPT !.cur = Parent(w.cur)], Tail(comps))
         ELSE LET d == Child(w.cur, c) IN
              IF ~Exists(w.fs, d)
              THEN MakeDirs([fs |-> Put(w.fs, d, DirNode), cur |-> d, ok |-> TRUE],
                            Tail(comps))
              ELSE IF IsDir(w.fs, d)
              THEN MakeDirs([w EXCEPT !.cur = d], Tail(comps))
              ELSE [w EXCEPT !.ok = FALSE]

\* TarFile._extract_member(member, os.path.join(path, member.name)), as
\* extractall calls it (line 32): r = [fs, ok].
ExtractMember(f, path, m) ==
    LET target == RStripSlash(Join(path, m.name))
        comps == Split(target)
        upper == SubSeq(comps, 1, Len(comps) - 1)
        last == comps[Len(comps)]
        w == MakeDirs([fs |-> f, cur |-> Root, ok |-> TRUE], upper)
    IN IF ~w.ok THEN [fs |-> w.fs, ok |-> FALSE]
       ELSE IF last = <<>> \/ last = Dot \/ last = DotDot
            \* the target is a directory that the walk has reached
            THEN [fs |-> w.fs, ok |-> m.type = "dir"]
       ELSE LET t == Child(w.cur, last) IN
            IF m.type = "dir"
            THEN [fs |-> IF Exists(w.fs, t) THEN w.fs ELSE Put(w.fs, t, DirNode),
                  ok |-> TRUE]
            ELSE IF IsDir(w.fs, t)
                 THEN [fs |-> w.fs, ok |-> FALSE]
                 ELSE [fs |-> Put(w.fs, t, FileNode(m.data)), ok |-> TRUE]

\* tar.extractall(path): the members in archive order, stopping at the
\* first one that raises.
RECURSIVE ExtractAll(_, _, _)
ExtractAll(f, path, members) ==
    IF members = <<>> THEN [fs |-> f, status |-> "ok"]
    ELSE LET r == ExtractMember(f, path, Head(members)) IN
         IF r.ok THEN ExtractAll(r.fs, path, Tail(members))
         ELSE [fs |-> r.fs, status |-> "OSError"]

\* safe_extract that checks and extracts member by member
RECURSIVE SafeExtractInterleaved(_, _, _)
SafeExtractInterleaved(f, members, path) ==
    IF members = <<>> THEN [fs |-> f, status |-> "ok"]
    ELSE IF ~IsWithinDirectory(path, Join(path, Head(members).name))
         THEN [fs |-> f, status |-> "PathTraversal"]
    ELSE LET r == ExtractMember(f, path, Head(members)) IN
         IF r.ok THEN SafeExtractInterleaved(r.fs, Tail(members), path)
         ELSE [fs |-> r.fs, status |-> "OSError"]

\* safe_extract(tar, path) (lines 25-32)
SafeExtract(f, members, path) ==
    IF \E i \in 1..Len(members) :
           ~IsWithinDirectory(path, Join(path, members[i].name))
    THEN [fs |-> f, status |-> "PathTraversal"]
    ELSE ExtractAll(f, path, members)

\* a < b in the order of Python's str
RECURSIVE StrLess(_, _)
StrLess(a, b) ==
    IF b = <<>> THEN FALSE
    ELSE IF a = <<>> THEN TRUE
    ELSE IF a[1] = b[1] THEN StrLess(Tail(a), Tail(b))
    ELSE CharCode(a[1]) < CharCode(b[1])

\* sorted(S)
RECURSIVE Sorted(_)
Sorted(S) ==
    IF S = {} THEN <<>>
    ELSE LET m == CHOOSE x \in S : \A y \in S \ {x} : StrLess(x, y)
         IN <<m>> \o Sorted(S \ {m})

\* os.listdir(d)
ListDir(f, d) == {BaseName(p) : p \in {q \in DOMAIN f : q # Root /\ Parent(q) = d}}

\* TarFile.add(name, arcname), recursive: the members it appends
RECURSIVE TarAdd(_, _, _)
RECURSIVE TarAddChildren(_, _, _, _)
TarAdd(f, name, arcname) ==
    IF IsDir(f, name)
    THEN <<Member(arcname, "dir", NoData)>>
         \o TarAddChildren(f, name, arcname, Sorted(ListDir(f, name)))
    ELSE <<Member(arcname, "file", f[name].data)>>

TarAddChildren(f, name, arcname, names) ==
    IF names = <<>> THEN <<>>
    ELSE TarAdd(f, Join(name, Head(names)), Join(arcname, Head(names)))
         \o TarAddChildren(f, name, arcname, Tail(names))

\* TarInfo.name of gettarinfo: the leading slashes of arcname are stripped
RECURSIVE LStripSlash(_)
LStripSlash(s) == IF s # <<>> /\ s[1] = "/" THEN LStripSlash(Tail(s)) ELSE s

\* tar.add(name) without arcname: the members carry the directory's own path
ArchiveUnaliased(f, name) == TarAdd(f, name, LStripSlash(name))

\* tar.add('/tmp/config-dir', arcname = '') (lines 47-48)
Archive(f, name) == TarAdd(f, name, <<>>)

\* what lies at and below directory d
Subtree(f, d) ==
    [p \in {q \in DOMAIN f : q = d \/ StartsWith(q, d \o <<"/">>)} |-> f[p]]

---------------------------------------------------------------------------
(* The extraction harness: safe_extract and tar.add applied to bounded     *)
(* archives, as lines 15-35 and 47-48 apply them.                          *)

ConfigDirName == <<"c", "o", "n", "f", "i", "g", "-", "d", "i", "r">>
SiblingName == <<"c", "o", "n", "f", "i", "g", "-", "d", "i", "r", "-", "x">>

\* path components of the member names tried
Components == {DotDot, <<"a">>, ConfigDirName, SiblingName}

\* relative names of one and two components
RelNames == Components \cup {c \o <<"/">> \o d : c \in Components, d \in Components}

\* absolute names, at the root and in /tmp
AbsNames == {Root \o c : c \in Components} \cup {TmpDir \o <<"/">> \o c : c \in Components}

\* member names tried: the empty name, relative names and absolute names
Names == {<<>>} \cup RelNames \cup AbsNames

\* archives of at most MaxEntries regular files; member i holds <<"seed", i>>
InputArchives ==
    UNION {{[i \in 1..n |-> Member(ns[i], "file", <<"seed", i>>)] : ns \in [1..n -> Names]}
           : n \in 0..MaxEntries}

\* a file system that an earlier invocation has extracted into
WarmFs == Put(Put(EmptyFs, ConfigDir, DirNode),
              Child(ConfigDir, <<"a">>), FileNode(<<"old", 0>>))

\* the harness holds an archive and a file system; the handler is not running
XInit ==
    /\ xArchive \in InputArchives
    /\ xFs \in {EmptyFs, WarmFs}
    /\ xBefore = xFs
    /\ xStatus = "none"
    /\ xPhase = "ready"
    /\ xTar2 = <<>>
    /\ xFs2 = EmptyFs
    /\ storage = <<>>
    /\ fs = <<>>
    /\ pc = <<>>
    /\ steps = <<>>
    /\ renewed = <<>>
    /\ environ = <<>>
    /\ started = 0
    /\ issued = 0
    /\ putLog = <<>>
    /\ ledger = <<>>

\* safe_extract(tar, "/tmp/config-dir") (line 35)
XSafeExtract ==
    /\ xPhase = "ready"
    /\ LET r == SafeExtract(xFs, xArchive, ConfigDir) IN
       /\ xFs' = r.fs
       /\ xStatus' = r.status
    /\ xPhase' = "extracted"
    /\ UNCHANGED <<xArchive, xBefore, xTar2, xFs2>>
    /\ UNCHANGED hvars

\* tar.add('/tmp/config-dir', arcname = '') (lines 47-48) of the extracted
\* tree; the handler gets there with /tmp/config-dir a directory, the
\* renewal client having written into it.
XArchive ==
    /\ xPhase = "extracted"
    /\ xStatus = "ok"
    /\ IsDir(xFs, ConfigDir)
    /\ xTar2' = Archive(xFs, ConfigDir)
    /\ xPhase' = "archived"
    /\ UNCHANGED <<xArchive, xFs, xStatus, xBefore, xFs2>>
    /\ UNCHANGED hvars

\* the next invocation's safe_extract of that archive, in a fresh environment
XReExtract ==
    /\ xPhase = "archived"
    /\ LET r == SafeExtract(EmptyFs, xTar2, ConfigDir) IN
       /\ xFs2' = r.fs
       /\ xStatus' = r.status
    /\ xPhase' = "reextracted"
    /\ UNCHANGED <<xArchive, xFs, xBefore, xTar2>>
    /\ UNCHANGED hvars

XNext == XSafeExtract \/ XArchive \/ XReExtract

SpecExtract == XInit /\ [][XNext]_vars

---------------------------------------------------------------------------
(* The handler (lines 7-61), one instance per execution environment. *)

Envs == 1..MaxEnvs

\* values of os.environ['SUBDOMAIN']: the model is of one deployment of the
\* function, whose environments all carry the same subdomain
Subdomains == {<<"a">>}

\* f"{os.environ['AWS_REGION']}.liquidity-certbot-runner-infrastructure-{subdomain}"
Bucket(subdomain) == Region \o BucketInfix \o subdomain

Buckets == {Bucket(sd) : sd \in Subdomains}

\* f'/tmp/config-dir/live/{subdomain}.liquidityapp.com/privkey.pem'
PrivkeyPath(subdomain) == LivePrefix \o subdomain \o DomainSuffix \o PrivkeySuffix

\* f'/tmp/config-dir/live/{subdomain}.liquidityapp.com/fullchain.pem'
FullchainPath(subdomain) == LivePrefix \o subdomain \o DomainSuffix \o FullchainSuffix

\* the statements of the handler, in program order
Order == <<"fetch", "extract", "renew", "archive", "upload_state", "package",
           "upload_bundle">>

IndexOf(step) == CHOOSE i \in 1..Len(Order) : Order[i] = step

After(step) == IF IndexOf(step) = Len(Order) THEN "done" ELSE Order[IndexOf(step) + 1]

\* a handler that catches the exception of a statement and goes on
NextPcSwallow(step, ok) == After(step)

\* Where control goes after a statement: to the next statement, or out of
\* the handler with the exception the statement raised (nothing catches it).
NextPc(step, ok) == IF ok THEN After(step) ELSE "failed"

Running(p) == p \notin {"idle", "done", "failed"}

\* upload_file that does not replace an object that exists
PutObjectIfAbsent(st, bucket, key, obj) ==
    IF st[bucket][key] = NoObject THEN [st EXCEPT ![bucket][key] = obj] ELSE st

\* s3.upload_file(local, bucket, key): the object is created or replaced
PutObject(st, bucket, key, obj) == [st EXCEPT ![bucket][key] = obj]

\* one entry of the log of an invocation
Step(name, ok, err, bucket, key, obj) ==
    [name |-> name, ok |-> ok, err |-> err, bucket |-> bucket, key |-> key, obj |-> obj]

NoRenewal == [privkey |-> NoData, fullchain |-> NoData]

\* open(path, 'w') by the renewal client, its directories made as needed
WriteFile(f, path, d) ==
    LET comps == Split(path)
        w == MakeDirs([fs |-> f, cur |-> Root, ok |-> TRUE],
                      SubSeq(comps, 1, Len(comps) - 1))
        t == Child(w.cur, comps[Len(comps)])
    IN IF w.ok /\ ~IsDir(w.fs, t)
       THEN [fs |-> Put(w.fs, t, FileNode(d)), ok |-> TRUE]
       ELSE [fs |-> f, ok |-> FALSE]

\* zip.write(path, arcname) for both files in the other order of names
PackageBundleSwapped(f, subdomain) ==
    [fs |-> Put(f, BundlePath,
                ZipNode(<<Member(PrivkeyName, "file", f[FullchainPath(subdomain)].data),
                          Member(FullchainName, "file", f[PrivkeyPath(subdomain)].data)>>)),
     status |-> "ok"]

\* zipfile.ZipFile('/tmp/certbundle.zip', 'w'): an existing file is replaced
PackageBundleOverwrite(f, subdomain) ==
    [fs |-> Put(f, BundlePath,
                ZipNode(<<Member(PrivkeyName, "file", f[PrivkeyPath(subdomain)].data),
                          Member(FullchainName, "file", f[FullchainPath(subdomain)].data)>>)),
     status |-> "ok"]

\* zip.write(path, arcname = name): the entry a path contributes
ZipEntry(f, path, name) ==
    IF IsDir(f, path) THEN Member(name \o <<"/">>, "dir", NoData)
    ELSE Member(name, "file", f[path].data)

\* lines 54-56: ZipFile(..., 'x') creates the file or raises FileExistsError;
\* each zip.write adds one entry or raises FileNotFoundError, and leaving
\* the with block closes the file with the entries written so far.
PackageBundle(f, subdomain) ==
    IF Exists(f, BundlePath) THEN [fs |-> f, status |-> "AlreadyExists"]
    ELSE IF ~Exists(f, PrivkeyPath(subdomain))
         THEN [fs |-> Put(f, BundlePath, ZipNode(<<>>)), status |-> "FileNotFound"]
    ELSE LET one == <<ZipEntry(f, PrivkeyPath(subdomain), PrivkeyName)>> IN
         IF ~Exists(f, FullchainPath(subdomain))
         THEN [fs |-> Put(f, BundlePath, ZipNode(one)), status |-> "FileNotFound"]
         ELSE [fs |-> Put(f, BundlePath,
                          ZipNode(one \o <<ZipEntry(f, FullchainPath(subdomain),
                                                    FullchainName)>>)),
               status |-> "ok"]

\* state archives found in storage before the first invocation: the state
\* of a registered account, and an archive with a member that leaves the
\* directory
SeedArchive ==
    <<Member(<<>>, "dir", NoData),
      Member(<<"a", "c", "c", "o", "u", "n", "t", "s">>, "file", <<"account", 0>>)>>

TraversalArchive ==
    <<Member(<<"a", "c", "c", "o", "u", "n", "t", "s">>, "file", <<"account", 0>>),
      Member(<<".", ".", "/", "a">>, "file", <<"seed", 0>>)>>

InitialStates == {NoObject, TarNode(SeedArchive), TarNode(TraversalArchive)}

\* no os.environ yet: the execution environment does not exist
NoSubdomain == <<>>

\* ledger[b].latest when the environment of the latest invocation is gone
Gone == 0 - 1

NoLedger == [overlap |-> FALSE, failed |-> FALSE, latest |-> 0]

Init ==
    /\ storage \in {[b \in Buckets |-> [k \in Keys |-> IF k = StateKey THEN c[b] ELSE NoObject]]
                    : c \in [Buckets -> InitialStates]}
    /\ environ = [e \in Envs |-> NoSubdomain]
    /\ fs = [e \in Envs |-> EmptyFs]
    /\ pc = [e \in Envs |-> "idle"]
    /\ steps = [e \in Envs |-> <<>>]
    /\ renewed = [e \in Envs |-> NoRenewal]
    /\ started = 0
    /\ issued = 0
    /\ putLog = [b \in Buckets |-> [k \in Keys |-> <<>>]]
    /\ ledger = [b \in Buckets |-> NoLedger]
    /\ xArchive = <<>>
    /\ xFs = EmptyFs
    /\ xBefore = EmptyFs
    /\ xStatus = "none"
    /\ xPhase = "off"
    /\ xTar2 = <<>>
    /\ xFs2 = EmptyFs

\* the bucket the handler of environment e addresses (lines 11, 51, 59)
BucketOf(e) == Bucket(environ[e])

\* The effect of a statement on control and on the invocation's log.
Advance(e, name, ok, err, bucket, key, obj) ==
    /\ pc' = [pc EXCEPT ![e] = NextPc(name, ok)]
    /\ steps' = [steps EXCEPT ![e] = Append(@, Step(name, ok, err, bucket, key, obj))]
    /\ ledger' = [ledger EXCEPT ![BucketOf(e)].failed = @ \/ ~ok]

\* The host calls handler(event, context) (line 7) in a new execution
\* environment, whose os.environ['SUBDOMAIN'] is that of the function
\* deployed (line 8).  New environments are all alike: the free slot of
\* lowest number is taken.
ColdStart(e) ==
    /\ pc[e] = "idle"
    /\ \A o \in Envs : o < e => pc[o] # "idle"
    /\ started < MaxInvocations
    /\ started' = started + 1
    /\ \E sd \in Subdomains :
          /\ environ' = [environ EXCEPT ![e] = sd]
          /\ ledger' = [ledger EXCEPT
                          ![Bucket(sd)].latest = e,
                          ![Bucket(sd)].overlap =
                              @ \/ \E o \in Envs \ {e} :
                                       BucketOf(o) = Bucket(sd) /\ Running(pc[o])]
    /\ pc' = [pc EXCEPT ![e] = "fetch"]
    /\ UNCHANGED <<storage, fs, steps, renewed, issued, putLog>>
    /\ UNCHANGED xvars

\* The host calls handler(event, context) (line 7) again in an execution
\* environment that an earlier invocation has left behind, with its /tmp.
WarmStart(e) ==
    /\ pc[e] \in {"done", "failed"}
    /\ started < MaxInvocations
    /\ started' = started + 1
    /\ pc' = [pc EXCEPT ![e] = "fetch"]
    /\ steps' = [steps EXCEPT ![e] = <<>>]
    /\ renewed' = [renewed EXCEPT ![e] = NoRenewal]
    /\ ledger' = [ledger EXCEPT
                    ![BucketOf(e)].latest = e,
                    ![BucketOf(e)].overlap =
                        @ \/ \E o \in Envs \ {e} : BucketOf(o) = BucketOf(e) /\ Running(pc[o])]
    /\ UNCHANGED <<storage, fs, environ, issued, putLog>>
    /\ UNCHANGED xvars

\* The host discards an execution environment between invocations, and
\* its local storage with it.
TearDown(e) ==
    /\ pc[e] \in {"done", "failed"}
    /\ pc' = [pc EXCEPT ![e] = "idle"]
    /\ fs' = [fs EXCEPT ![e] = EmptyFs]
    /\ steps' = [steps EXCEPT ![e] = <<>>]
    /\ renewed' = [renewed EXCEPT ![e] = NoRenewal]
    /\ environ' = [environ EXCEPT ![e] = NoSubdomain]
    /\ ledger' = [ledger EXCEPT ![BucketOf(e)].latest = IF @ = e THEN Gone ELSE @]
    /\ UNCHANGED <<storage, started, issued, putLog>>
    /\ UNCHANGED xvars

\* s3.download_file(bucket, 'state.tar', '/tmp/state.tar') (lines 10-14)
Fetch(e) ==
    /\ pc[e] = "fetch"
    /\ \E transfer \in BOOLEAN :
          LET obj == storage[BucketOf(e)][StateKey]
              ok == transfer /\ obj # NoObject
              err == IF obj = NoObject THEN "NotFound"
                     ELSE IF ~transfer THEN "Transfer" ELSE "none"
          IN /\ fs' = [fs EXCEPT ![e] = IF ok THEN Put(@, StatePath, obj) ELSE @]
             /\ Advance(e, "fetch", ok, err, BucketOf(e), StateKey,
                        IF ok THEN obj ELSE NoObject)
    /\ UNCHANGED <<storage, renewed, environ, started, issued, putLog>>
    /\ UNCHANGED xvars

\* tarfile.open('/tmp/state.tar', 'r:') and safe_extract(tar, "/tmp/config-dir")
\* (lines 15-35)
Extract(e) ==
    /\ pc[e] = "extract"
    /\ LET r == IF Exists(fs[e], StatePath)
                THEN SafeExtract(fs[e], fs[e][StatePath].members, ConfigDir)
                ELSE [fs |-> fs[e], status |-> "FileNotFound"]
       IN /\ fs' = [fs EXCEPT ![e] = r.fs]
          /\ Advance(e, "extract", r.status = "ok", r.status, <<>>, "", NoObject)
    /\ UNCHANGED <<storage, renewed, environ, started, issued, putLog>>
    /\ UNCHANGED xvars

\* certbot.main.main([...]) (lines 36-46) raises.
RenewFails(e) ==
    /\ pc[e] = "renew"
    /\ Advance(e, "renew", FALSE, "RenewalFailure", <<>>, "", NoObject)
    /\ UNCHANGED <<storage, fs, renewed, environ, started, issued, putLog>>
    /\ UNCHANGED xvars

\* certbot.main.main([...]) (lines 36-46) obtains a certificate and writes
\* live/<subdomain>.liquidityapp.com/{privkey.pem,fullchain.pem}.
RenewIssues(e) ==
    /\ pc[e] = "renew"
    /\ LET n == issued + 1
           k == WriteFile(fs[e], PrivkeyPath(environ[e]), <<"privkey", n>>)
           c == WriteFile(k.fs, FullchainPath(environ[e]), <<"fullchain", n>>)
       IN /\ k.ok /\ c.ok
          /\ fs' = [fs EXCEPT ![e] = c.fs]
          /\ issued' = n
          /\ renewed' = [renewed EXCEPT ![e] =
                            [privkey |-> <<"privkey", n>>, fullchain |-> <<"fullchain", n>>]]
    /\ Advance(e, "renew", TRUE, "none", <<>>, "", NoObject)
    /\ UNCHANGED <<storage, environ, started, putLog>>
    /\ UNCHANGED xvars

\* certbot.main.main([...]) (lines 36-46) finds the certificate of the
\* state not yet due for renewal and keeps it.
RenewKeeps(e) ==
    /\ pc[e] = "renew"
    /\ Exists(fs[e], PrivkeyPath(environ[e])) /\ ~IsDir(fs[e], PrivkeyPath(environ[e]))
    /\ Exists(fs[e], FullchainPath(environ[e])) /\ ~IsDir(fs[e], FullchainPath(environ[e]))
    /\ renewed' = [renewed EXCEPT ![e] =
                      [privkey |-> fs[e][PrivkeyPath(environ[e])].data,
                       fullchain |-> fs[e][FullchainPath(environ[e])].data]]
    /\ Advance(e, "renew", TRUE, "none", <<>>, "", NoObject)
    /\ UNCHANGED <<storage, fs, environ, started, issued, putLog>>
    /\ UNCHANGED xvars

\* with tarfile.open('/tmp/state.tar', 'w:') as tar: tar.add(...) (lines 47-48)
ArchiveState(e) ==
    /\ pc[e] = "archive"
    /\ LET ok == Exists(fs[e], ConfigDir) IN
          /\ fs' = [fs EXCEPT ![e] =
                       Put(@, StatePath,
                           TarNode(IF ok THEN Archive(@, ConfigDir) ELSE <<>>))]
          /\ Advance(e, "archive", ok, IF ok THEN "none" ELSE "FileNotFound",
                     <<>>, "", NoObject)
    /\ UNCHANGED <<storage, renewed, environ, started, issued, putLog>>
    /\ UNCHANGED xvars

\* s3.upload_file(local, bucket, key) raises: the local file is missing or
\* the transfer fails.  Nothing is put.
UploadFails(e, name, local, key) ==
    /\ pc[e] = name
    /\ Advance(e, name, FALSE, IF Exists(fs[e], local) THEN "Transfer" ELSE "FileNotFound",
               BucketOf(e), key, NoObject)
    /\ UNCHANGED <<storage, fs, renewed, environ, started, issued, putLog>>
    /\ UNCHANGED xvars

\* s3.upload_file(local, bucket, key) puts the file's content at the key.
UploadPuts(e, name, local, key) ==
    /\ pc[e] = name
    /\ Exists(fs[e], local)
    /\ storage' = PutObject(storage, BucketOf(e), key, fs[e][local])
    /\ putLog' = [putLog EXCEPT ![BucketOf(e)][key] = Append(@, fs[e][local])]
    /\ Advance(e, name, TRUE, "none", BucketOf(e), key, fs[e][local])
    /\ UNCHANGED <<fs, renewed, environ, started, issued>>
    /\ UNCHANGED xvars

\* the state archive put under the bundle's key
UploadStateToBundleKey(e) ==
    \/ UploadFails(e, "upload_state", StatePath, BundleKey)
    \/ UploadPuts(e, "upload_state", StatePath, BundleKey)

\* s3.upload_file('/tmp/state.tar', bucket, 'state.tar') (lines 49-53)
UploadState(e) ==
    \/ UploadFails(e, "upload_state", StatePath, StateKey)
    \/ UploadPuts(e, "upload_state", StatePath, StateKey)

\* with zipfile.ZipFile('/tmp/certbundle.zip', 'x') as zip: ... (lines 54-56)
Package(e) ==
    /\ pc[e] = "package"
    /\ LET r == PackageBundle(fs[e], environ[e]) IN
          /\ fs' = [fs EXCEPT ![e] = r.fs]
          /\ Advance(e, "package", r.status = "ok", r.status, <<>>, "", NoObject)
    /\ UNCHANGED <<storage, renewed, environ, started, issued, putLog>>
    /\ UNCHANGED xvars

\* s3.upload_file('/tmp/certbundle.zip', bucket, 'certbundle.zip') (lines 57-61)
UploadBundle(e) ==
    \/ UploadFails(e, "upload_bundle", BundlePath, BundleKey)
    \/ UploadPuts(e, "upload_bundle", BundlePath, BundleKey)

Next ==
    \E e \in Envs :
        \/ ColdStart(e)
        \/ WarmStart(e)
        \/ TearDown(e)
        \/ Fetch(e)
        \/ Extract(e)
        \/ RenewFails(e)
        \/ RenewIssues(e)
        \/ RenewKeeps(e)
        \/ ArchiveState(e)
        \/ UploadState(e)
        \/ Package(e)
        \/ UploadBundle(e)

Spec == Init /\ [][Next]_vars

---------------------------------------------------------------------------
(* Properties of safe_extract and tar.add, checked under SpecExtract. *)

Range(q) == {q[i] : i \in 1..Len(q)}

\* target is directory itself or a path located beneath it
Beneath(target, directory) ==
    target = directory \/ StartsWith(target, directory \o <<"/">>)

\* the member name, joined with the destination and resolved, leaves it
Unsafe(path, name) == ~Beneath(AbsPath(Join(path, name)), AbsPath(path))

\* the member passes the check of safe_extract's loop
Validated(path, name) == IsWithinDirectory(path, Join(path, name))

\* C1: every archive with at least one member whose resolved destination is
\* neither the destination directory nor beneath it makes safe_extract fail
\* with the Path-Traversal error.
C1_RejectsEveryUnsafeArchive ==
    (xPhase = "extracted" /\ \E i \in 1..Len(xArchive) : Unsafe(ConfigDir, xArchive[i].name))
        => xStatus = "PathTraversal"

\* C2: safe_extract validates every member before it writes any: a
\* Path-Traversal failure leaves the file system as it was, whatever the
\* position of the offending member, and the file system changes only when
\* every member passed validation.
C2_NoPartialExtraction ==
    xPhase = "extracted" =>
        /\ (xStatus = "PathTraversal") =
               (\E i \in 1..Len(xArchive) : ~Validated(ConfigDir, xArchive[i].name))
        /\ xStatus = "PathTraversal" => xFs = xBefore
        /\ xFs # xBefore =>
               \A i \in 1..Len(xArchive) : Validated(ConfigDir, xArchive[i].name)

\* C2's case: the offending member comes last, after a member that passes
\* validation and would have been written.
C2_Witness ==
    /\ xPhase = "extracted"
    /\ xStatus = "PathTraversal"
    /\ Len(xArchive) = 2
    /\ Validated(ConfigDir, xArchive[1].name)
    /\ ExtractMember(xBefore, ConfigDir, xArchive[1]).fs # xBefore
    /\ ~Validated(ConfigDir, xArchive[2].name)

\* a path at or beneath directory d, relative to d
RelativeTo(p, d) == IF p = d THEN <<>> ELSE SubSeq(p, Len(d) + 2, Len(p))

\* C9: the archive of tar.add('/tmp/config-dir', arcname = '') holds every
\* file of the tree under names relative to the directory, and safe_extract
\* of it into a fresh /tmp/config-dir accepts every member and reproduces
\* the tree, file contents included.
C9_StateRoundTrip ==
    xPhase = "reextracted" =>
        /\ xStatus = "ok"
        /\ \A i \in 1..Len(xTar2) : Validated(ConfigDir, xTar2[i].name)
        /\ {m.name : m \in Range(xTar2)}
               = {RelativeTo(p, ConfigDir) : p \in DOMAIN Subtree(xFs, ConfigDir)}
        /\ \A m \in Range(xTar2) :
               m.type = "file" => m.data = xFs[Join(ConfigDir, m.name)].data
        /\ Subtree(xFs2, ConfigDir) = Subtree(xFs, ConfigDir)

\* C9's case: a tree with a file in a subdirectory went through the round trip.
C9_Witness ==
    /\ xPhase = "reextracted"
    /\ \E p \in DOMAIN xFs2 :
          /\ xFs2[p].kind = "file"
          /\ StartsWith(p, ConfigDir \o <<"/">>)
          /\ Parent(p) # ConfigDir

---------------------------------------------------------------------------
(* Properties of the handler, checked under Spec. *)

Last(q) == q[Len(q)]

\* the subdomain a bucket belongs to
SubdomainOf(b) == CHOOSE sd \in Subdomains : Bucket(sd) = b

\* The invocation of environment e took a step.
Stepped(e) == pc'[e] # pc[e]

\* C3, state part: a statement among fetch, safe extraction and renewal that
\* failed is the last the invocation executed, and the invocation has left
\* the handler without an archive, upload or package statement.
C3_FailedEarlyStops ==
    \A e \in Envs : \A i \in 1..Len(steps[e]) :
        (~steps[e][i].ok /\ steps[e][i].name \in {"fetch", "extract", "renew"}) =>
            /\ i = Len(steps[e])
            /\ pc[e] = "failed"
            /\ \A j \in 1..Len(steps[e]) :
                   steps[e][j].name \in {"fetch", "extract", "renew"}

\* C3, step part: no step of an invocation up to and including the renewal,
\* and no step that leaves a failed invocation behind, changes an object.
C3_NoWriteStep ==
    \A e \in Envs :
        (Stepped(e) /\ pc[e] \in {"fetch", "extract", "renew", "failed"})
            => storage' = storage

\* C3: an invocation that fails at fetch, at safe extraction or at the
\* renewal writes nothing to object storage and executes no later statement.
C3_EarlyFailureWritesNothing == []C3_FailedEarlyStops /\ [][C3_NoWriteStep]_vars

\* C3's case: an invocation fetched and extracted the state and failed at
\* the renewal; the objects are as it found them.
C3_Witness ==
    \E e \in Envs :
        /\ pc[e] = "failed"
        /\ Last(steps[e]).name = "renew"
        /\ storage[BucketOf(e)][StateKey] = steps[e][1].obj
        /\ storage[BucketOf(e)][BundleKey] = NoObject

\* C4, state part: the log of an invocation is a prefix of the fixed order,
\* every statement but the last succeeded, control is at the next statement
\* or out of the handler, and the uploads address the bucket of the fetch,
\* the state upload its key.
C4_LinearOrder ==
    \A e \in Envs :
        /\ Len(steps[e]) <= Len(Order)
        /\ \A i \in 1..Len(steps[e]) :
              /\ steps[e][i].name = Order[i]
              /\ i < Len(steps[e]) => steps[e][i].ok
              /\ steps[e][i].name = "upload_state" =>
                     /\ steps[e][i].bucket = steps[e][1].bucket
                     /\ steps[e][i].key = steps[e][1].key
              /\ steps[e][i].name = "upload_bundle" =>
                     /\ steps[e][i].bucket = steps[e][1].bucket
                     /\ steps[e][i].key = BundleKey
        /\ pc[e] = "idle" => steps[e] = <<>>
        /\ pc[e] = "failed" => (steps[e] # <<>> /\ ~Last(steps[e]).ok)
        /\ pc[e] = "done" => (Len(steps[e]) = Len(Order) /\ Last(steps[e]).ok)
        /\ Running(pc[e]) =>
              /\ pc[e] = Order[Len(steps[e]) + 1]
              /\ \A i \in 1..Len(steps[e]) : steps[e][i].ok

\* C4, step part: a step that fails the invocation leaves every object as it
\* is (an upload already completed is not undone), and an invocation that
\* has failed takes no further step of the handler.
C4_FailureStep ==
    \A e \in Envs :
        /\ (pc[e] # "failed" /\ pc'[e] = "failed") => storage' = storage
        /\ (pc[e] = "failed" /\ Stepped(e)) => (pc'[e] \in {"idle", "fetch"} /\ steps'[e] = <<>>)

\* C4: the statements of an invocation run in the fixed order, each after
\* all earlier ones succeeded and none twice; the state goes back to the
\* bucket and key it came from; a failure ends the invocation and undoes
\* nothing.
C4_StrictlyLinear == []C4_LinearOrder /\ [][C4_FailureStep]_vars

\* C4's case: an invocation failed at the bundle upload after its state
\* upload, and the state it uploaded is still in storage.
C4_Witness ==
    \E e \in Envs :
        /\ pc[e] = "failed"
        /\ Last(steps[e]).name = "upload_bundle"
        /\ storage[BucketOf(e)][StateKey] = steps[e][5].obj

\* C5: the state upload of an invocation can always put its object,
\* whatever other invocations did to the key since the fetch, and the object
\* at state.tar is the one of the upload that came last.
C5_LastWriterWins ==
    /\ \A e \in Envs :
          (pc[e] = "upload_state" /\ Exists(fs[e], StatePath))
              => ENABLED UploadPuts(e, "upload_state", StatePath, StateKey)
    /\ \A b \in Buckets :
          putLog[b][StateKey] # <<>> => storage[b][StateKey] = Last(putLog[b][StateKey])
    /\ \A e \in Envs : \A i \in 1..Len(steps[e]) :
          (steps[e][i].name = "upload_state" /\ steps[e][i].ok)
              => steps[e][i].obj \in Range(putLog[BucketOf(e)][StateKey])

\* C5's case: two invocations for one subdomain overlapped, both fetched the
\* same state, both completed, and the state one of them uploaded is gone.
C5_Witness ==
    \E e \in Envs, o \in Envs :
        /\ e # o /\ BucketOf(e) = BucketOf(o)
        /\ pc[e] = "done" /\ pc[o] = "done"
        /\ ledger[BucketOf(e)].overlap
        /\ steps[e][1].obj = steps[o][1].obj
        /\ steps[e][5].obj # steps[o][5].obj
        /\ storage[BucketOf(e)][StateKey] = steps[o][5].obj

\* C6, state part: an invocation whose package statement found the bundle
\* path occupied has left the handler there, after its state upload and
\* without a bundle upload; unless another invocation for the subdomain
\* ran at the same time or started later, state.tar holds the state it
\* uploaded.
C6_AfterAlreadyExists ==
    \A e \in Envs : \A i \in 1..Len(steps[e]) :
        steps[e][i].err = "AlreadyExists" =>
            /\ steps[e][i].name = "package"
            /\ i = Len(steps[e])
            /\ pc[e] = "failed"
            /\ steps[e][i - 1].name = "upload_state" /\ steps[e][i - 1].ok
            /\ steps[e][i - 1].obj = fs[e][StatePath]
            /\ steps[e][i - 1].obj = TarNode(Archive(fs[e], ConfigDir))
            /\ (ledger[BucketOf(e)].latest = e /\ ~ledger[BucketOf(e)].overlap)
                   => storage[BucketOf(e)][StateKey] = steps[e][i - 1].obj

\* C6, step part: the package statement at an occupied bundle path fails
\* with AlreadyExists and changes neither the local files nor any object.
C6_OccupiedStep ==
    \A e \in Envs :
        (pc[e] = "package" /\ Exists(fs[e], BundlePath) /\ Stepped(e)) =>
            /\ pc'[e] = "failed"
            /\ Last(steps'[e]).err = "AlreadyExists"
            /\ fs'[e] = fs[e]
            /\ storage' = storage

\* C6: with the local bundle path occupied, packaging fails with
\* Already-Exists, the existing file and the object at certbundle.zip stay
\* as they are, and state.tar has already been replaced by the new state.
C6_OccupiedBundlePath == []C6_AfterAlreadyExists /\ [][C6_OccupiedStep]_vars

\* C6's case: packaging failed with AlreadyExists.
C6_Witness ==
    \E e \in Envs :
        /\ pc[e] = "failed"
        /\ Last(steps[e]).err = "AlreadyExists"
        /\ storage[BucketOf(e)][StateKey] = steps[e][5].obj
        /\ storage[BucketOf(e)][BundleKey] # fs[e][BundlePath]

\* C7: every invocation that gets to the package statement finds the local
\* bundle path free.
C7_BundleTargetFresh ==
    \A e \in Envs : pc[e] = "package" => ~Exists(fs[e], BundlePath)

\* the bundle made of the two files a renewal left
BundleOf(r) ==
    ZipNode(<<Member(PrivkeyName, "file", r.privkey),
              Member(FullchainName, "file", r.fullchain)>>)

\* C8, state part: after the renewal, the record of what it left agrees
\* with the two files under live/<subdomain>.liquidityapp.com/.
C8_RenewedIsLive ==
    \A e \in Envs :
        pc[e] \in {"archive", "upload_state", "package", "upload_bundle", "done"} =>
            /\ renewed[e].privkey = fs[e][PrivkeyPath(environ[e])].data
            /\ renewed[e].fullchain = fs[e][FullchainPath(environ[e])].data
            /\ renewed[e].privkey # renewed[e].fullchain

\* C8, step part: the bundle upload that completes an invocation puts a
\* bundle of exactly the entries privkey.pem and fullchain.pem, holding what
\* the renewal left in the files of those names.
C8_BundleStep ==
    \A e \in Envs :
        (pc[e] = "upload_bundle" /\ pc'[e] = "done")
            => storage'[BucketOf(e)][BundleKey] = BundleOf(renewed[e])

\* C8: the bundle a successful invocation uploads holds exactly privkey.pem
\* and fullchain.pem with the contents the renewal left, neither swapped nor
\* taken from the tree before the renewal.
C8_BundleContents == []C8_RenewedIsLive /\ [][C8_BundleStep]_vars

\* C8's case: an invocation completed whose fetched state held the first
\* certificate and whose renewal issued the second.
C8_Witness ==
    \E e \in Envs :
        /\ pc[e] = "done"
        /\ \E m \in Range(steps[e][1].obj.members) : m.data = <<"privkey", 1>>
        /\ renewed[e].privkey = <<"privkey", 2>>
        /\ storage[BucketOf(e)][BundleKey] = BundleOf(renewed[e])

\* the content of the member of that name, if the archive has one
DataAt(members, name) ==
    IF \E m \in Range(members) : m.name = name
    THEN (CHOOSE m \in Range(members) : m.name = name).data
    ELSE NoData

\* live/<subdomain>.liquidityapp.com/<file> inside the state archive
LiveName(subdomain, suffix) == RelativeTo(LivePrefix \o subdomain \o DomainSuffix \o suffix, ConfigDir)

\* no invocation for the bucket is running
Settled(b) == \A e \in Envs : BucketOf(e) = b => ~Running(pc[e])

\* C10: when the invocations for a subdomain so far did not overlap and
\* all completed, the entries of certbundle.zip are the privkey.pem and
\* fullchain.pem of live/<subdomain>.liquidityapp.com/ in state.tar.
C10_StateAndBundleAgree ==
    \A b \in Buckets :
        (/\ ledger[b].latest # 0
         /\ ~ledger[b].overlap
         /\ ~ledger[b].failed
         /\ Settled(b)) =>
            storage[b][BundleKey] =
                BundleOf([privkey |-> DataAt(storage[b][StateKey].members,
                                             LiveName(SubdomainOf(b), PrivkeySuffix)),
                          fullchain |-> DataAt(storage[b][StateKey].members,
                                               LiveName(SubdomainOf(b), FullchainSuffix))])

\* C10's case: two invocations for one subdomain, one after the other,
\* both completed, the second having issued a new certificate.
C10_Witness ==
    \E b \in Buckets :
        /\ ledger[b].latest # 0 /\ ~ledger[b].overlap /\ ~ledger[b].failed /\ Settled(b)
        /\ Len(putLog[b][BundleKey]) = 2
        /\ storage[b][BundleKey].members[1].data = <<"privkey", 2>>

=============================================================================
